---- MODULE Spec2Model ----
(***************************************************************************)
(* A model of AI-DataParser: src/src/extractor.py (DynamicExtractor) and   *)
(* src/cli.py (main).                                                      *)
(*                                                                         *)
(* Strings whose characters the code inspects (type tags, paths, file      *)
(* contents, texts) are sequences of one-character strings; field names,   *)
(* which the code only passes along, are atoms.                            *)
(***************************************************************************)
EXTENDS Integers, Sequences, FiniteSets, TLC

VARIABLES
    fields,     \* model_fields: the field list handed to the operations
    args,       \* the command line of the run / the argument of the call
    pc,         \* control location
    units,      \* bulk modes: the list being iterated (texts, rows, image_files)
    idx,        \* bulk modes: number of list elements already consumed
    results,    \* the results list accumulated so far (bulk local / main local)
    processed,  \* history: the units handed to process_text / process_image, in order
    op,         \* the operation that returned last
    raw,        \* what the model endpoint answered in the last call
    ret,        \* the value the operation returned
    raised,     \* the exception that left the operation ("none": it returned)
    console,    \* the messages printed so far
    file,       \* the export target file
    env         \* what the last operation met outside: contents read, failures of the OS

vars == <<fields, args, pc, units, idx, results, processed, op, raw, ret, raised, console, file, env>>

\* no export file
Absent == [format |-> "absent", header |-> <<>>, rows |-> <<>>]

NoEnv == [content |-> <<>>, dir_ok |-> TRUE, open_ok |-> TRUE, before |-> Absent]

\* no model call has been made
NoRaw == [syntax |-> "none", hasEntities |-> FALSE, Entities |-> <<>>]

----------------------------------------------------------------------------
(* Bounds *)

MaxFields == 2
MaxEntities == 2
MaxLen == 6
MaxFiles == 2
MaxResults == 2

----------------------------------------------------------------------------
(* Character strings *)

\* Python's `sub in s` on strings
Contains(s, sub) ==
    \E i \in 1..(Len(s) - Len(sub) + 1) : SubSeq(s, i, i + Len(sub) - 1) = sub

StartsWith(s, p) == Len(s) >= Len(p) /\ SubSeq(s, 1, Len(p)) = p

EndsWith(s, p) == Len(s) >= Len(p) /\ SubSeq(s, Len(s) - Len(p) + 1, Len(s)) = p

S_str == <<"s","t","r">>
S_int == <<"i","n","t">>
S_float == <<"f","l","o","a","t">>
S_bool == <<"b","o","o","l">>
S_list == <<"l","i","s","t">>

ListOf(x) == <<"l","i","s","t","(">> \o x \o <<")">>

\* type_options of the field-collection loop, in menu order
type_options ==
    << S_str, S_int, S_float, ListOf(S_str), ListOf(S_int), ListOf(S_float),
       ListOf(S_bool), S_bool >>

----------------------------------------------------------------------------
(* Schema Builder: get_dynamic_model *)

Prim(p) == [list |-> FALSE, prim |-> p]
ListType(p) == [list |-> TRUE, prim |-> p]

\* the if/elif chain that picks field_type from field['type']
FieldType(t) ==
    IF t = S_int THEN Prim("int")
    ELSE IF t = S_float THEN Prim("float")
    ELSE IF t = S_bool THEN Prim("bool")
    ELSE IF Contains(t, S_list) THEN
        IF Contains(t, S_int) THEN ListType("int")
        ELSE IF Contains(t, S_float) THEN ListType("float")
        ELSE IF Contains(t, S_bool) THEN ListType("bool")
        ELSE ListType("str")
    ELSE Prim("str")

\* the keyword parameters of create_model: a field of such a name is taken
\* for that parameter, not for a field definition.  __base__ = (type, default)
\* is not a tuple of classes and class creation raises TypeError.
CreateModelKeywords == {"__base__"}

IndexOfName(m, n) ==
    IF \E i \in 1..Len(m) : m[i].name = n
    THEN CHOOSE i \in 1..Len(m) : m[i].name = n
    ELSE 0

\* model_fields[field['name']] = (field_type, default_value): a dict keeps a
\* key at the place of its first insertion and takes the last value
PutField(m, f) ==
    LET e == [name |-> f.name, type |-> FieldType(f.type), required |-> ~f.optional]
        i == IndexOfName(m, f.name)
    IN  IF i = 0 THEN Append(m, e) ELSE [m EXCEPT ![i] = e]

RECURSIVE ModelFields(_)
ModelFields(fs) ==
    IF fs = <<>> THEN <<>>
    ELSE PutField(ModelFields(SubSeq(fs, 1, Len(fs) - 1)), fs[Len(fs)])

get_dynamic_model(fs) ==
    IF \E i \in 1..Len(fs) : fs[i].name \in CreateModelKeywords
    THEN [raised |-> "TypeError", model |-> <<>>]
    ELSE [raised |-> "none", model |-> ModelFields(fs)]

HasDuplicate(fs) == \E i, j \in 1..Len(fs) : i # j /\ fs[i].name = fs[j].name

----------------------------------------------------------------------------
(* Response Validator: EntitiesList.model_validate_json and model_dump      *)

\* JSON values: a tag and a payload (a float's payload is in tenths)
JStr(x) == [t |-> "str", v |-> x]
JInt(n) == [t |-> "int", v |-> n]
JFloat(n) == [t |-> "float", v |-> n]
JList(xs) == [t |-> "list", v |-> xs]
None == [t |-> "null", v |-> 0]

Invalid == [ok |-> FALSE, v |-> None]
Valid(x) == [ok |-> TRUE, v |-> x]

\* what the validator makes of JSON value x for a primitive annotation: the
\* declared type is kept, an integer is widened for a float field, a float
\* without fraction is taken for an int field, a string field takes strings
\* only, and null is taken by no field (the annotation is never Optional)
ValidatePrim(p, x) ==
    IF x.t = p THEN Valid(x)
    ELSE IF p = "float" /\ x.t = "int" THEN Valid(JFloat(x.v * 10))
    ELSE IF p = "int" /\ x.t = "float" /\ x.v % 10 = 0 THEN Valid(JInt(x.v \div 10))
    ELSE Invalid

ValidateValue(type, x) ==
    IF ~type.list THEN ValidatePrim(type.prim, x)
    ELSE IF x.t # "list" THEN Invalid
    ELSE IF \E i \in 1..Len(x.v) : ~ValidatePrim(type.prim, x.v[i]).ok THEN Invalid
    ELSE Valid(JList([i \in 1..Len(x.v) |-> ValidatePrim(type.prim, x.v[i]).v]))

\* one field of one array element: a key that is absent takes the default
\* None when the field has one and is an error when the field is required
ValidateField(f, e) ==
    IF f.name \in DOMAIN e THEN ValidateValue(f.type, e[f.name])
    ELSE IF f.required THEN Invalid
    ELSE Valid(None)

ElementOk(model, e) == \A i \in 1..Len(model) : ValidateField(model[i], e).ok

\* item.model_dump(): the declared fields in declaration order; keys of the
\* element that the model does not declare are dropped
Dump(model, e) ==
    [i \in 1..Len(model) |->
        [name |-> model[i].name, value |-> ValidateField(model[i], e).v]]

\* a validation that drops the elements that fail and keeps the others
ValidatedElementsPerElement(model, es) ==
    Valid(SelectSeq(es, LAMBDA e : ElementOk(model, e)))

\* the elements a validation hands on: every element, or none at all
ValidatedElements(model, es) ==
    IF \A i \in 1..Len(es) : ElementOk(model, es[i]) THEN Valid(es) ELSE [ok |-> FALSE, v |-> <<>>]

\* model_validate_json on the response content
model_validate_json(model, content) ==
    IF content.syntax # "ok" THEN [ok |-> FALSE, v |-> <<>>]
    ELSE IF ~content.hasEntities THEN [ok |-> FALSE, v |-> <<>>]
    ELSE ValidatedElements(model, content.Entities)

Returned(v, msgs) == [raised |-> "none", ret |-> v, console |-> msgs]
Raised(exc, msgs) == [raised |-> exc, ret |-> <<>>, console |-> msgs]

_extract_structured_data(response_content, model_fields, input_context) ==
    LET Entity == get_dynamic_model(model_fields) IN
    IF Entity.raised # "none" THEN Raised(Entity.raised, <<>>)
    ELSE LET extracted_data == model_validate_json(Entity.model, response_content) IN
         IF extracted_data.ok
         THEN Returned([i \in 1..Len(extracted_data.v) |->
                          [input |-> input_context,
                           response |-> Dump(Entity.model, extracted_data.v[i])]],
                       <<>>)
         ELSE Returned(<<>>, <<"Validation Error">>)

----------------------------------------------------------------------------
(* Extraction Orchestrator: process_text, process_image                     *)

\* a tag that is the path as given
WholePath(p) == p

\* the part of a path after its last "/"
RECURSIVE basename(_)
basename(p) ==
    IF p = <<>> THEN <<>>
    ELSE IF p[Len(p)] = "/" THEN <<>>
    ELSE Append(basename(SubSeq(p, 1, Len(p) - 1)), p[Len(p)])

\* chat: what client.chat did: raised (syntax = "error") or answered
process_text(text, model_fields, chat) ==
    LET Entity == get_dynamic_model(model_fields) IN
    IF Entity.raised # "none" THEN Raised(Entity.raised, <<>>)
    ELSE IF chat.syntax = "error" THEN Returned(<<>>, <<"Error processing text">>)
    ELSE LET r == _extract_structured_data(chat, model_fields, text) IN
         IF r.raised # "none" THEN Returned(<<>>, <<"Error processing text">>)
         ELSE r

\* opened: whether open(image_path, 'rb') succeeded
process_image(image_path, model_fields, opened, chat) ==
    LET Entity == get_dynamic_model(model_fields) IN
    IF Entity.raised # "none" THEN Raised(Entity.raised, <<>>)
    ELSE IF ~opened \/ chat.syntax = "error"
         THEN Returned(<<>>, <<"Error processing image">>)
    ELSE LET r == _extract_structured_data(chat, model_fields, basename(image_path)) IN
         IF r.raised # "none" THEN Returned(<<>>, <<"Error processing image">>)
         ELSE r

----------------------------------------------------------------------------
(* Paths and file contents *)

LowerChar(c) ==
    CASE c = "T" -> "t" [] c = "X" -> "x" [] c = "C" -> "c" [] c = "S" -> "s"
      [] c = "V" -> "v" [] c = "J" -> "j" [] c = "P" -> "p" [] c = "G" -> "g"
      [] c = "N" -> "n"
      [] OTHER -> c

\* str.lower()
lower(s) == [i \in 1..Len(s) |-> LowerChar(s[i])]

\* os.path.splitext(p)[1]: from the last dot of the last path component, if
\* a character other than a dot precedes it in that component
splitext_ext(p) ==
    LET slash == IF \E i \in 1..Len(p) : p[i] = "/"
                 THEN CHOOSE i \in 1..Len(p) : p[i] = "/" /\ \A j \in (i+1)..Len(p) : p[j] # "/"
                 ELSE 0
        dots == { i \in (slash+1)..Len(p) : p[i] = "." }
    IN  IF dots = {} THEN <<>>
        ELSE LET d == CHOOSE i \in dots : \A j \in dots : j <= i IN
             IF \E j \in (slash+1)..(d-1) : p[j] # "." THEN SubSeq(p, d, Len(p)) ELSE <<>>

\* os.path.join(folder, name)
join(folder, name) ==
    IF folder # <<>> /\ folder[Len(folder)] = "/" THEN folder \o name
    ELSE folder \o <<"/">> \o name

IndexOfSep(s, sep) ==
    IF Contains(s, sep)
    THEN CHOOSE i \in 1..Len(s) :
            /\ SubSeq(s, i, i + Len(sep) - 1) = sep
            /\ \A j \in 1..(i-1) : SubSeq(s, j, j + Len(sep) - 1) # sep
    ELSE 0

\* str.split(sep): the pieces between the occurrences of sep, found left to right
RECURSIVE split(_, _)
split(s, sep) ==
    LET i == IndexOfSep(s, sep) IN
    IF i = 0 THEN << s >>
    ELSE << SubSeq(s, 1, i - 1) >> \o split(SubSeq(s, i + Len(sep), Len(s)), sep)

Whitespace == {" ", "\n"}

\* `not text.strip()`
IsBlank(s) == \A i \in 1..Len(s) : s[i] \in Whitespace

\* str.splitlines on what was read: the text after a final newline is no line
lines(s) ==
    LET ls == split(s, <<"\n">>) IN
    IF ls[Len(ls)] = <<>> THEN SubSeq(ls, 1, Len(ls) - 1) ELSE ls

\* one row of csv.reader (no quoting): an empty line is the row []
csv_row(line) == IF line = <<>> THEN <<>> ELSE split(line, <<",">>)

\* ' '.join(row)
RECURSIVE join_spaces(_)
join_spaces(row) ==
    IF row = <<>> THEN <<>>
    ELSE IF Len(row) = 1 THEN row[1]
    ELSE row[1] \o <<" ">> \o join_spaces(Tail(row))

S_txt == <<".","t","x","t">>
S_csv == <<".","c","s","v">>
S_json == <<".","j","s","o","n">>

\* the units process_bulk_text iterates over, one per text / row
text_units(file_ext, content) ==
    IF file_ext = S_txt THEN split(content, <<",", ",">>)
    ELSE LET rows == lines(content) IN
         [i \in 1..Len(rows) |-> join_spaces(csv_row(rows[i]))]

ImageSuffixes ==
    { <<".","p","n","g">>, <<".","j","p","g">>, <<".","j","p","e","g">>,
      <<".","g","i","f">>, <<".","b","m","p">> }

\* filename.lower().endswith(('.png', '.jpg', '.jpeg', '.gif', '.bmp'))
IsImage(filename) == \E sfx \in ImageSuffixes : EndsWith(lower(filename), sfx)

image_files(listing) == SelectSeq(listing, IsImage)

----------------------------------------------------------------------------
(* Presentation Layer: export_results                                       *)

\* list(results[0]['response'].keys())
ResponseKeys(item) == [k \in 1..Len(item.response) |-> item.response[k].name]

Range(q) == { q[i] : i \in 1..Len(q) }

\* row = {'input': item['input']}; row.update(item['response']); the cell
\* DictWriter writes under column col ('' for a column the row lacks)
Cell(item, col) ==
    IF \E k \in 1..Len(item.response) : item.response[k].name = col
    THEN item.response[CHOOSE k \in 1..Len(item.response) : item.response[k].name = col].value
    ELSE IF col = "input" THEN JStr(item.input)
    ELSE JStr(<<>>)

RowOf(item, fieldnames) == [c \in 1..Len(fieldnames) |-> Cell(item, fieldnames[c])]

\* DictWriter raises ValueError on a row with a key that is no column
RowFits(item, fieldnames) == Range(ResponseKeys(item)) \subseteq Range(fieldnames)

\* the rows written before the first row that does not fit, or all of them
RECURSIVE RowsWritten(_, _)
RowsWritten(rs, fieldnames) ==
    IF rs = <<>> \/ ~RowFits(rs[1], fieldnames) THEN <<>>
    ELSE << RowOf(rs[1], fieldnames) >> \o RowsWritten(Tail(rs), fieldnames)

JsonFile(rs) == [format |-> "json", header |-> <<>>, rows |-> rs]
CsvFile(fieldnames, rows) == [format |-> "csv", header |-> fieldnames, rows |-> rows]

Exported(f, msg) == [raised |-> "none", file |-> f, console |-> << msg >>]

\* an export that opens its target before it looks at the results
export_results_open_first(rs, output_file, before, dir_ok, open_ok) ==
    LET file_ext == lower(splitext_ext(output_file)) IN
    IF ~dir_ok THEN Exported(before, "OS Error during export")
    ELSE IF file_ext \notin {S_json, S_csv} THEN Exported(before, "Unsupported file format")
    ELSE IF ~open_ok THEN Exported(before, "Permission denied")
    ELSE IF file_ext = S_json THEN Exported(JsonFile(rs), "Results exported to JSON")
    ELSE IF rs = <<>> THEN Exported(CsvFile(<<>>, <<>>), "No results to export.")
    ELSE LET fieldnames == << "input" >> \o ResponseKeys(rs[1]) IN
         Exported(CsvFile(fieldnames, RowsWritten(rs, fieldnames)),
                  IF \A i \in 1..Len(rs) : RowFits(rs[i], fieldnames)
                  THEN "Results exported to CSV" ELSE "Unexpected error during export")

\* before: the target file as it is; dir_ok, open_ok: whether os.makedirs and
\* open(output_file, 'w') succeed
export_results(rs, output_file, before, dir_ok, open_ok) ==
    LET file_ext == lower(splitext_ext(output_file)) IN
    IF ~dir_ok THEN Exported(before, "OS Error during export")
    ELSE IF file_ext = S_json THEN
        IF ~open_ok THEN Exported(before, "Permission denied")
        ELSE Exported(JsonFile(rs), "Results exported to JSON")
    ELSE IF file_ext = S_csv THEN
        IF rs = <<>> THEN Exported(before, "No results to export.")
        ELSE IF ~open_ok THEN Exported(before, "Permission denied")
        ELSE LET fieldnames == << "input" >> \o ResponseKeys(rs[1]) IN
             IF \A i \in 1..Len(rs) : RowFits(rs[i], fieldnames)
             THEN Exported(CsvFile(fieldnames, RowsWritten(rs, fieldnames)),
                           "Results exported to CSV")
             ELSE Exported(CsvFile(fieldnames, RowsWritten(rs, fieldnames)),
                           "Unexpected error during export")
    ELSE Exported(before, "Unsupported file format")

----------------------------------------------------------------------------
(* Extraction Orchestrator: process_bulk_text, process_bulk_images, one     *)
(* step per pass through their loops.  The caller's arguments are in args.  *)

\* the operation returns v to its caller
BulkReturns(name, v, msgs) ==
    /\ op' = name
    /\ ret' = v
    /\ raised' = "none"
    /\ console' = console \o msgs
    /\ pc' = "returned"

\* process_bulk_text on a path that carries neither .txt nor .csv: no branch
\* is taken and the empty results list is returned
BulkTextOther ==
    /\ pc = "dispatch" /\ args.mode = "bulk_text"
    /\ lower(splitext_ext(args.target)) \notin {S_txt, S_csv}
    /\ BulkReturns("process_bulk_text", <<>>, <<>>)
    /\ UNCHANGED <<fields, args, units, idx, results, processed, raw, file, env>>

\* open(file_path) raises: the handler prints and returns []
BulkTextOpenFails ==
    /\ pc = "dispatch" /\ args.mode = "bulk_text"
    /\ lower(splitext_ext(args.target)) \in {S_txt, S_csv}
    /\ BulkReturns("process_bulk_text", <<>>, <<"Error processing bulk text">>)
    /\ env' = [env EXCEPT !.open_ok = FALSE]
    /\ UNCHANGED <<fields, args, units, idx, results, processed, raw, file>>

\* the file is read and cut into units
BulkTextRead(Contents) ==
    /\ pc = "dispatch" /\ args.mode = "bulk_text"
    /\ lower(splitext_ext(args.target)) \in {S_txt, S_csv}
    /\ \E content \in Contents :
        /\ env' = [env EXCEPT !.content = content]
        /\ units' = text_units(lower(splitext_ext(args.target)), content)
    /\ idx' = 0
    /\ results' = <<>>
    /\ pc' = "bulk_text"
    /\ UNCHANGED <<fields, args, processed, op, raw, ret, raised, console, file>>

\* a blank text or row is passed over
BulkTextSkip ==
    /\ pc = "bulk_text" /\ idx < Len(units)
    /\ IsBlank(units[idx + 1])
    /\ idx' = idx + 1
    /\ UNCHANGED <<fields, args, pc, units, results, processed, op, raw, ret, raised,
                   console, file, env>>

\* process_text on the next unit; what it raises is caught by the handler of
\* process_bulk_text, which prints and returns []
BulkTextUnit(Chats) ==
    /\ pc = "bulk_text" /\ idx < Len(units)
    /\ ~IsBlank(units[idx + 1])
    /\ \E chat \in Chats :
        LET r == process_text(units[idx + 1], fields, chat) IN
        IF r.raised = "none"
        THEN /\ results' = results \o r.ret
             /\ processed' = Append(processed, [unit |-> units[idx + 1], ret |-> r.ret])
             /\ console' = console \o r.console
             /\ raw' = chat
             /\ idx' = idx + 1
             /\ UNCHANGED <<pc, op, ret, raised>>
        ELSE /\ BulkReturns("process_bulk_text", <<>>,
                            r.console \o <<"Error processing bulk text">>)
             /\ UNCHANGED <<results, processed, raw, idx>>
    /\ UNCHANGED <<fields, args, units, file, env>>

BulkTextReturn ==
    /\ pc = "bulk_text" /\ idx = Len(units)
    /\ BulkReturns("process_bulk_text", results, <<>>)
    /\ UNCHANGED <<fields, args, units, idx, results, processed, raw, file, env>>

\* os.listdir(folder_path) raises
BulkImagesListFails ==
    /\ pc = "dispatch" /\ args.mode = "bulk_images"
    /\ BulkReturns("process_bulk_images", <<>>, <<"Error processing bulk images">>)
    /\ env' = [env EXCEPT !.open_ok = FALSE]
    /\ UNCHANGED <<fields, args, units, idx, results, processed, raw, file>>

\* the folder is listed, in the order the file system gives
BulkImagesList(Listings) ==
    /\ pc = "dispatch" /\ args.mode = "bulk_images"
    /\ \E listing \in Listings :
        /\ env' = [env EXCEPT !.content = listing]
        /\ units' = image_files(listing)
    /\ idx' = 0
    /\ results' = <<>>
    /\ pc' = "bulk_images"
    /\ UNCHANGED <<fields, args, processed, op, raw, ret, raised, console, file>>

BulkImagesUnit(Chats) ==
    /\ pc = "bulk_images" /\ idx < Len(units)
    /\ \E opened \in BOOLEAN, chat \in Chats :
        LET r == process_image(join(args.target, units[idx + 1]), fields, opened, chat) IN
        IF r.raised = "none"
        THEN /\ results' = results \o r.ret
             /\ processed' = Append(processed, [unit |-> units[idx + 1], ret |-> r.ret])
             /\ console' = console \o r.console
             /\ raw' = IF opened THEN chat ELSE NoRaw
             /\ idx' = idx + 1
             /\ UNCHANGED <<pc, op, ret, raised>>
        ELSE /\ BulkReturns("process_bulk_images", <<>>,
                            r.console \o <<"Error processing bulk images">>)
             /\ UNCHANGED <<results, processed, raw, idx>>
    /\ UNCHANGED <<fields, args, units, file, env>>

BulkImagesReturn ==
    /\ pc = "bulk_images" /\ idx = Len(units)
    /\ BulkReturns("process_bulk_images", results, <<>>)
    /\ UNCHANGED <<fields, args, units, idx, results, processed, raw, file, env>>

----------------------------------------------------------------------------
(* The command line: main                                                   *)

E_json == <<"j","s","o","n">>
E_csv == <<"c","s","v">>
E_none == <<"n","o","n","e">>

\* the file of a run that was cut off between open and close
Partial == [format |-> "partial", header |-> <<>>, rows |-> <<>>]

\* os.path.join(os.getcwd(), f'extraction_results.{args.export}')
ExportTarget(fmt) == <<"c","w","d","/","r",".">> \o fmt

\* the user gives an empty name before any field: the loop prints and goes on
CliNoFieldYet ==
    /\ pc = "fields" /\ fields = <<>> /\ console = <<>>
    /\ console' = <<"At least one field must be defined!">>
    /\ UNCHANGED <<fields, args, pc, units, idx, results, processed, op, raw, ret, raised,
                   file, env>>

\* a name, a number of the type menu and y/n: the field is appended, whatever
\* names the list holds already
CliAddField(Names, Choices) ==
    /\ pc = "fields" /\ Len(fields) < MaxFields
    /\ \E name \in Names, type_choice \in Choices, optional \in BOOLEAN :
        fields' = Append(fields, [name |-> name, type |-> type_options[type_choice],
                                  optional |-> optional])
    /\ UNCHANGED <<args, pc, units, idx, results, processed, op, raw, ret, raised,
                   console, file, env>>

\* the user gives a type number outside the menu: the IndexError ends the run
\* in main's handler
CliBadTypeChoice ==
    /\ pc = "fields" /\ Len(fields) < MaxFields
    /\ raised' = "IndexError"
    /\ console' = console \o <<"An unexpected error occurred">>
    /\ pc' = "done"
    /\ UNCHANGED <<fields, args, units, idx, results, processed, op, raw, ret, file, env>>

\* an empty name after at least one field ends the loop
CliFieldsDone ==
    /\ pc = "fields" /\ fields # <<>>
    /\ pc' = "dispatch"
    /\ UNCHANGED <<fields, args, units, idx, results, processed, op, raw, ret, raised,
                   console, file, env>>

\* what main does with the outcome r of a single-unit operation: it binds the
\* results, or its handler prints the exception and the run ends
SingleReturns(name, chat, r) ==
    IF r.raised = "none"
    THEN /\ op' = name
         /\ raw' = chat
         /\ ret' = r.ret
         /\ console' = console \o r.console
         /\ pc' = "returned"
         /\ UNCHANGED raised
    ELSE /\ raised' = r.raised
         /\ console' = console \o r.console \o <<"An unexpected error occurred">>
         /\ pc' = "done"
         /\ UNCHANGED <<op, raw, ret>>

CliText(Chats) ==
    /\ pc = "dispatch" /\ args.mode = "text"
    /\ \E chat \in Chats : SingleReturns("process_text", chat, process_text(args.target, fields, chat))
    /\ UNCHANGED <<fields, args, units, idx, results, processed, file, env>>

CliImage(Chats) ==
    /\ pc = "dispatch" /\ args.mode = "image"
    /\ \E opened \in BOOLEAN, chat \in Chats :
        SingleReturns("process_image", IF opened THEN chat ELSE NoRaw,
                      process_image(args.target, fields, opened, chat))
    /\ UNCHANGED <<fields, args, units, idx, results, processed, file, env>>

CliNoInput ==
    /\ pc = "dispatch" /\ args.mode = "none"
    /\ console' = console \o <<"No input specified.">>
    /\ pc' = "done"
    /\ UNCHANGED <<fields, args, units, idx, results, processed, op, raw, ret, raised, file, env>>

CliNoResults ==
    /\ pc = "returned" /\ ret = <<>>
    /\ console' = console \o <<"No results to export or display.">>
    /\ pc' = "done"
    /\ UNCHANGED <<fields, args, units, idx, results, processed, op, raw, ret, raised, file, env>>

\* display_results, then on to the export if one was asked for
CliDisplay ==
    /\ pc = "returned" /\ ret # <<>>
    /\ console' = IF args.display = "none" THEN console ELSE console \o <<"Extracted Data">>
    /\ pc' = IF args.export = E_none THEN "done" ELSE "export"
    /\ UNCHANGED <<fields, args, units, idx, results, processed, op, raw, ret, raised, file, env>>

\* export_results up to the opening of the target: a target that is opened
\* for writing is empty from then on
CliExportOpen ==
    /\ pc = "export"
    /\ \E dir_ok \in BOOLEAN, open_ok \in BOOLEAN :
        LET o == export_results(ret, ExportTarget(args.export), file, dir_ok, open_ok) IN
        /\ env' = [env EXCEPT !.dir_ok = dir_ok, !.open_ok = open_ok, !.before = file]
        /\ IF o.file # file
           THEN /\ file' = Partial
                /\ pc' = "writing"
                /\ UNCHANGED console
           ELSE /\ console' = console \o o.console
                /\ pc' = "done"
                /\ UNCHANGED file
    /\ UNCHANGED <<fields, args, units, idx, results, processed, op, raw, ret, raised>>

\* the rows are written and the file is closed
CliExportWrite ==
    /\ pc = "writing"
    /\ LET o == export_results(ret, ExportTarget(args.export), env.before, TRUE, TRUE) IN
        /\ file' = o.file
        /\ console' = console \o o.console
    /\ pc' = "done"
    /\ UNCHANGED <<fields, args, units, idx, results, processed, op, raw, ret, raised, env>>

\* an interrupt that writes out the results gathered so far
InterruptFlushing ==
    /\ pc # "done"
    /\ raised' = "KeyboardInterrupt"
    /\ console' = console \o <<"Operation cancelled by user.">>
    /\ file' = IF results # <<>> THEN JsonFile(results) ELSE file
    /\ pc' = "done"
    /\ UNCHANGED <<fields, args, units, idx, results, processed, op, raw, ret, env>>

\* KeyboardInterrupt, which no handler below main catches: main prints and the
\* run ends; nothing is written
Interrupt ==
    /\ pc # "done"
    /\ raised' = "KeyboardInterrupt"
    /\ console' = console \o <<"Operation cancelled by user.">>
    /\ pc' = "done"
    /\ UNCHANGED <<fields, args, units, idx, results, processed, op, raw, ret, file, env>>

----------------------------------------------------------------------------
(* Inputs of the schema builder *)

S_date == <<"d","a","t","e">>
S_playlist == <<"p","l","a","y","l","i","s","t">>
S_point == <<"p","o","i","n","t">>

KindStrings ==
    { type_options[i] : i \in 1..Len(type_options) }
        \cup { S_date, S_playlist, ListOf(S_date), ListOf(S_point) }

SchemaNames == {"title", "input"}

FieldSpecs(names, kinds) == [name : names, type : kinds, optional : BOOLEAN]

SeqsUpTo(S, n) == UNION { [1..k -> S] : k \in 0..n }

Idle ==
    /\ args = <<>> /\ pc = "call" /\ units = <<>> /\ idx = 0 /\ results = <<>>
    /\ processed = <<>> /\ op = "none" /\ raw = NoRaw /\ ret = <<>>
    /\ raised = "none" /\ console = <<>> /\ file = Absent /\ env = NoEnv

InitSchema ==
    /\ fields \in SeqsUpTo(FieldSpecs(SchemaNames, KindStrings), MaxFields)
    /\ Idle

\* a caller builds the schema of its field list
GetDynamicModel ==
    /\ pc = "call" /\ op = "none"
    /\ LET r == get_dynamic_model(fields) IN
        /\ op' = "get_dynamic_model"
        /\ ret' = r.model
        /\ raised' = r.raised
    /\ UNCHANGED <<fields, args, pc, units, idx, results, processed, raw, console, file, env>>

NextSchema == GetDynamicModel

SpecSchema == InitSchema /\ [][NextSchema]_vars

----------------------------------------------------------------------------
(* Calls of the validator and of the single-unit operations *)

F(n, t, o) == [name |-> n, type |-> t, optional |-> o]

\* the field lists of the calls: required and optional fields, each kind of
\* value, a repeated name, no field, a name create_model takes for a keyword
ExtractFieldLists ==
    { << F("title", S_str, FALSE) >>,
      << F("title", S_str, FALSE), F("input", S_float, TRUE) >>,
      << F("title", S_str, TRUE), F("input", S_int, FALSE) >>,
      << F("input", ListOf(S_int), FALSE) >>,
      << F("title", S_str, FALSE), F("title", S_int, TRUE) >>,
      << >>,
      << F("__base__", S_str, FALSE) >> }

ElementKeys == {"title", "input"}

JsonValues == { JStr(<<"A">>), JInt(1), JFloat(15), JList(<< JInt(1) >>) }

TitleValues == { JStr(<<"A">>), JInt(1) }

\* the objects of an Entities array: any keys; any value under "input", a
\* string or an integer under "title"
Elements ==
    { e \in UNION { [D -> JsonValues] : D \in SUBSET ElementKeys } :
        "title" \in DOMAIN e => e["title"] \in TitleValues }

Malformed == [syntax |-> "bad", hasEntities |-> FALSE, Entities |-> <<>>]
NoEntities == [syntax |-> "ok", hasEntities |-> FALSE, Entities |-> <<>>]
EntitiesOf(es) == [syntax |-> "ok", hasEntities |-> TRUE, Entities |-> es]
CallFailed == [syntax |-> "error", hasEntities |-> FALSE, Entities |-> <<>>]

\* response contents: not JSON, JSON without an Entities array, or an array
Responses ==
    { Malformed, NoEntities } \cup { EntitiesOf(es) : es \in SeqsUpTo(Elements, MaxEntities) }

ChatOutcomes == Responses \cup { CallFailed }

Texts == { <<"f","o","o">> }

ImagePaths == { <<"d","/","a",".","p","n","g">>, <<"b",".","j","p","g">> }

InitExtract ==
    /\ fields \in ExtractFieldLists
    /\ Idle

Finish(name, a, chat, r) ==
    /\ op' = name
    /\ args' = a
    /\ raw' = chat
    /\ ret' = r.ret
    /\ raised' = r.raised
    /\ console' = console \o r.console
    /\ UNCHANGED <<fields, pc, units, idx, results, processed, file, env>>

CallExtract ==
    /\ pc = "call" /\ op = "none"
    /\ \E content \in Responses, ctx \in Texts :
        Finish("_extract_structured_data", ctx, content,
               _extract_structured_data(content, fields, ctx))

CallProcessText ==
    /\ pc = "call" /\ op = "none"
    /\ \E text \in Texts, chat \in ChatOutcomes :
        LET r == process_text(text, fields, chat) IN
        Finish("process_text", text, IF r.raised = "none" THEN chat ELSE NoRaw, r)

CallProcessImage ==
    /\ pc = "call" /\ op = "none"
    /\ \E path \in ImagePaths, opened \in BOOLEAN, chat \in ChatOutcomes :
        LET r == process_image(path, fields, opened, chat) IN
        Finish("process_image", path,
               IF r.raised = "none" /\ opened THEN chat ELSE NoRaw, r)

NextExtract == CallExtract \/ CallProcessText \/ CallProcessImage

SpecExtract == InitExtract /\ [][NextExtract]_vars

----------------------------------------------------------------------------
(* Calls of export_results *)

ExportKeyLists == { << "title" >>, << "input" >> }

ExportValues == { JStr(<<"A">>), JInt(1) }

ExportTags == { <<"t">>, <<"u">> }

\* results as the process operations return them: an input tag and the
\* dumped record of a schema
ResultItems ==
    UNION { { [input |-> tag,
               response |-> [k \in 1..Len(keys) |-> [name |-> keys[k], value |-> vs[k]]]] :
                 tag \in ExportTags, vs \in [1..Len(keys) -> ExportValues] } :
            keys \in ExportKeyLists }

ExportPaths ==
    { <<"o",".","c","s","v">>, <<"d","/","o",".","C","S","V">>,
      <<"o",".","j","s","o","n">>, <<"o",".","t","x","t">> }

\* a file left by an earlier run
OldFile == [format |-> "json", header |-> <<>>, rows |-> <<>>]

InitExport ==
    /\ fields = <<>>
    /\ args = <<>> /\ pc = "call" /\ units = <<>> /\ idx = 0 /\ results = <<>>
    /\ processed = <<>> /\ op = "none" /\ raw = NoRaw /\ ret = <<>>
    /\ raised = "none" /\ console = <<>> /\ env = NoEnv
    /\ file \in {Absent, OldFile}

CallExport ==
    /\ pc = "call" /\ op = "none"
    /\ \E rs \in SeqsUpTo(ResultItems, MaxResults), path \in ExportPaths,
          dir_ok \in BOOLEAN, open_ok \in BOOLEAN :
        LET o == export_results(rs, path, file, dir_ok, open_ok) IN
        /\ op' = "export_results"
        /\ args' = path
        /\ results' = rs
        /\ env' = [NoEnv EXCEPT !.dir_ok = dir_ok, !.open_ok = open_ok, !.before = file]
        /\ file' = o.file
        /\ raised' = o.raised
        /\ console' = console \o o.console
    /\ UNCHANGED <<fields, pc, units, idx, processed, raw, ret>>

NextExport == CallExport

SpecExport == InitExport /\ [][NextExport]_vars

----------------------------------------------------------------------------
(* Calls of the bulk operations *)

BulkFieldLists == { << F("title", S_str, FALSE) >>, << F("__base__", S_str, FALSE) >> }

BulkTextPaths ==
    { <<"a",".","t","x","t">>, <<"a",".","T","X","T">>, <<"a",".","c","s","v">>,
      <<"a",".","j","s","o","n">> }

FooBar == <<"f",",",",","b",",",",">>

BulkContents == SeqsUpTo({"f", ",", "\n"}, MaxLen) \cup { FooBar }

\* an answer of one record, an answer that fails validation, no answer
BulkChats ==
    { EntitiesOf(<< [title |-> JStr(<<"A">>)] >>),
      EntitiesOf(<< [input |-> JInt(1)] >>),
      CallFailed }

Folders == { <<"d">> }

FileNames == { <<"a",".","p","n","g">>, <<"b",".","J","P","G">>, <<"c",".","t","x","t">> }

Listings == SeqsUpTo(FileNames, MaxFiles)

BulkCall(mode, target) == [mode |-> mode, target |-> target, display |-> "none", export |-> <<>>]

InitBulk ==
    /\ fields \in BulkFieldLists
    /\ args \in { BulkCall("bulk_text", p) : p \in BulkTextPaths }
                   \cup { BulkCall("bulk_images", d) : d \in Folders }
    /\ pc = "dispatch" /\ units = <<>> /\ idx = 0 /\ results = <<>>
    /\ processed = <<>> /\ op = "none" /\ raw = NoRaw /\ ret = <<>>
    /\ raised = "none" /\ console = <<>> /\ file = Absent /\ env = NoEnv

NextBulk ==
    \/ BulkTextOther
    \/ BulkTextOpenFails
    \/ BulkTextRead(BulkContents)
    \/ BulkTextSkip
    \/ BulkTextUnit(BulkChats)
    \/ BulkTextReturn
    \/ BulkImagesListFails
    \/ BulkImagesList(Listings)
    \/ BulkImagesUnit(BulkChats)
    \/ BulkImagesReturn

SpecBulk == InitBulk /\ [][NextBulk]_vars

----------------------------------------------------------------------------
(* Runs of the command line *)

CliNames == { "title", "__base__" }

\* the numbers of the type menu the user picks from, less one
CliChoices == { 1 }

CliTargets ==
    { [mode |-> "text", target |-> <<"f","o","o">>],
      [mode |-> "image", target |-> <<"d","/","a",".","p","n","g">>],
      [mode |-> "bulk_text", target |-> <<"a",".","t","x","t">>],
      [mode |-> "bulk_text", target |-> <<"a",".","c","s","v">>],
      [mode |-> "bulk_text", target |-> <<"a",".","j","s","o","n">>],
      [mode |-> "bulk_images", target |-> <<"d">>],
      [mode |-> "none", target |-> <<>>] }

CliArgs ==
    { [mode |-> t.mode, target |-> t.target, display |-> d, export |-> e] :
        t \in CliTargets, d \in {"json", "none"}, e \in {E_json, E_csv, E_none} }

CliContents == { FooBar, <<"f","\n","f","\n">>, <<>> }

CliChats == { EntitiesOf(<< [title |-> JStr(<<"A">>)] >>), CallFailed }

CliListings == { << <<"a",".","p","n","g">>, <<"c",".","t","x","t">>, <<"b",".","J","P","G">> >>, << >> }

InitCli ==
    /\ fields = <<>>
    /\ args \in CliArgs
    /\ pc = "fields" /\ units = <<>> /\ idx = 0 /\ results = <<>>
    /\ processed = <<>> /\ op = "none" /\ raw = NoRaw /\ ret = <<>>
    /\ raised = "none" /\ console = <<>> /\ file = Absent /\ env = NoEnv

NextCli ==
    \/ CliNoFieldYet
    \/ CliAddField(CliNames, CliChoices)
    \/ CliBadTypeChoice
    \/ CliFieldsDone
    \/ CliText(CliChats)
    \/ CliImage(CliChats)
    \/ BulkTextOther
    \/ BulkTextOpenFails
    \/ BulkTextRead(CliContents)
    \/ BulkTextSkip
    \/ BulkTextUnit(CliChats)
    \/ BulkTextReturn
    \/ BulkImagesListFails
    \/ BulkImagesList(CliListings)
    \/ BulkImagesUnit(CliChats)
    \/ BulkImagesReturn
    \/ CliNoInput
    \/ CliNoResults
    \/ CliDisplay
    \/ CliExportOpen
    \/ CliExportWrite
    \/ Interrupt

SpecCli == InitCli /\ [][NextCli]_vars

----------------------------------------------------------------------------
(* C1: building the schema fails with a schema error whenever the field    *)
(* list is empty or holds two fields of the same name.                     *)
C1_SchemaErrorOnEmptyOrDuplicate ==
    (op = "get_dynamic_model" /\ (fields = <<>> \/ HasDuplicate(fields)))
        => raised = "SchemaError"

\* the kind the claim gives a kind string
IsListStyle(t) == StartsWith(t, <<"l","i","s","t","(">>) /\ EndsWith(t, <<")">>) /\ Len(t) >= 6

PrimNamed(x) ==
    IF x = S_int THEN "int"
    ELSE IF x = S_float THEN "float"
    ELSE IF x = S_bool THEN "bool"
    ELSE "str"

ClaimedKind(t) ==
    IF IsListStyle(t) THEN ListType(PrimNamed(SubSeq(t, 6, Len(t) - 1)))
    ELSE Prim(PrimNamed(t))

LastFieldNamed(fs, n) ==
    fs[CHOOSE i \in 1..Len(fs) :
            fs[i].name = n /\ \A j \in (i+1)..Len(fs) : fs[j].name # n]

(* C9: every kind string resolves to the primitive it names, a list(X)     *)
(* string to the list of the primitive X names, anything unrecognized to   *)
(* STRING.                                                                 *)
C9_KindResolution ==
    (op = "get_dynamic_model" /\ raised = "none")
        => \A i \in 1..Len(ret) :
              ret[i].type = ClaimedKind(LastFieldNamed(fields, ret[i].name).type)

----------------------------------------------------------------------------
(* Claims about validation and the single-unit operations (SpecExtract)     *)

Extracting == op \in {"_extract_structured_data", "process_text", "process_image"}

\* the schema the call built of its field list
Schema == get_dynamic_model(fields).model

AnsweredArray == Extracting /\ raised = "none" /\ raw.syntax = "ok" /\ raw.hasEntities

MissingRequired(e) ==
    \E i \in 1..Len(Schema) : Schema[i].required /\ Schema[i].name \notin DOMAIN e

(* C2: validation is all-or-nothing: when an element of the Entities array *)
(* lacks a required field, the call reports a validation failure and       *)
(* returns no record, whatever the other elements are.                     *)
C2_AllOrNothing ==
    (AnsweredArray /\ \E i \in 1..Len(raw.Entities) : MissingRequired(raw.Entities[i]))
        => (ret = <<>> /\ console = <<"Validation Error">>)

\* C2's case: an array of a valid element and one that lacks a required field
C2_Witness ==
    /\ op = "_extract_structured_data" /\ raised = "none" /\ raw.hasEntities
    /\ Len(raw.Entities) = 2
    /\ ElementOk(Schema, raw.Entities[1])
    /\ MissingRequired(raw.Entities[2])
    /\ ret = <<>>

TypeMatches(type, x) ==
    IF type.list
    THEN x.t = "list" /\ \A i \in 1..Len(x.v) : x.v[i].t = type.prim
    ELSE x.t = type.prim

\* every required field is there, and every field that is there has a value
\* of the declared kind
WellFormed(e) ==
    \A i \in 1..Len(Schema) :
        IF Schema[i].name \in DOMAIN e
        THEN TypeMatches(Schema[i].type, e[Schema[i].name])
        ELSE ~Schema[i].required

IsBasenameOf(tag, path) ==
    /\ EndsWith(path, tag)
    /\ \A i \in 1..Len(tag) : tag[i] # "/"
    /\ Len(tag) < Len(path) => path[Len(path) - Len(tag)] = "/"

TaggedWithInput(r) ==
    IF op = "process_image" THEN IsBasenameOf(r.input, args) ELSE r.input = args

ValueOf(response, n) ==
    response[CHOOSE k \in 1..Len(response) : response[k].name = n].value

(* C3: on an array of well-formed elements the call returns one record per *)
(* element, in array order, each value as it was in the element, and every *)
(* result carries the input identifier: the text, or the image's basename. *)
C3_RoundTrip ==
    (AnsweredArray /\ \A i \in 1..Len(raw.Entities) : WellFormed(raw.Entities[i]))
        => /\ Len(ret) = Len(raw.Entities)
           /\ \A i \in 1..Len(ret) :
                /\ TaggedWithInput(ret[i])
                /\ \A k \in 1..Len(Schema) :
                     Schema[k].name \in DOMAIN raw.Entities[i]
                        => ValueOf(ret[i].response, Schema[k].name)
                              = raw.Entities[i][Schema[k].name]

\* C3's case: an image in a folder answered by two different well-formed elements
C3_Witness ==
    /\ op = "process_image" /\ AnsweredArray
    /\ \E i \in 1..Len(args) : args[i] = "/"
    /\ Len(raw.Entities) = 2
    /\ \A i \in 1..2 : WellFormed(raw.Entities[i])
    /\ Len(ret) = 2 /\ ret[1].response # ret[2].response

(* C4: process_text and process_image never raise: every failure, that of  *)
(* schema construction included, is printed and the call returns [].       *)
C4_NeverRaises ==
    op \in {"process_text", "process_image"} => raised = "none"

----------------------------------------------------------------------------
(* Claims about export_results (SpecExport)                                 *)

EmptyCsvExport ==
    op = "export_results" /\ results = <<>> /\ EndsWith(lower(args), S_csv)

C10_InputColumn ==
    (op = "export_results" /\ results # <<>> /\ EndsWith(lower(args), S_csv)
        /\ console = <<"Results exported to CSV">>)
        => /\ file.header = << "input" >> \o ResponseKeys(results[1])
           /\ \A c \in 2..Len(file.header) : file.header[c] # "input"
           /\ Len(file.rows) = Len(results)
           /\ \A i \in 1..Len(file.rows) : file.rows[i][1] = JStr(results[i].input)

----------------------------------------------------------------------------
(* Claims about the bulk operations (SpecBulk)                              *)

BulkReturned == pc = "returned" /\ op \in {"process_bulk_text", "process_bulk_images"}

RECURSIVE Concat(_)
Concat(qs) == IF qs = <<>> THEN <<>> ELSE qs[1] \o Concat(Tail(qs))

NotBlank(u) == ~IsBlank(u)

(* C5: a bulk operation processes every non-blank unit once, in unit       *)
(* order, whatever happened to the units before it, and returns the        *)
(* concatenation of the per-unit results; "foo,,bar,," has the units foo   *)
(* and bar.                                                                *)
C5_EveryUnitInOrder ==
    BulkReturned
        => /\ [i \in 1..Len(processed) |-> processed[i].unit]
                = (IF op = "process_bulk_text" THEN SelectSeq(units, NotBlank) ELSE units)
           /\ ret = Concat([i \in 1..Len(processed) |-> processed[i].ret])
           /\ (env.content = FooBar /\ lower(args.target) = <<"a">> \o S_txt)
                => [i \in 1..Len(processed) |-> processed[i].unit] = << <<"f">>, <<"b">> >>

(* C6: process_bulk_text on a path that is neither .txt nor .csv reports   *)
(* an unsupported-format error instead of silently returning [].           *)
C6_UnsupportedReported ==
    (BulkReturned /\ op = "process_bulk_text"
        /\ ~EndsWith(lower(args.target), S_txt) /\ ~EndsWith(lower(args.target), S_csv))
        => console # <<>>

----------------------------------------------------------------------------
(* Claims about a run of the command line (SpecCli)                         *)

ProcessingDone ==
    /\ op \in {"process_text", "process_image", "process_bulk_text", "process_bulk_images"}
    /\ idx = Len(units)

(* C7: the export file is written only after all requested processing has  *)
(* completed: it is untouched while fields are collected, while a unit is  *)
(* processed and while results are displayed, and a run that is            *)
(* interrupted or aborted before its processing returned leaves no file.   *)
C7_ExportAfterProcessing ==
    /\ pc \in {"fields", "dispatch", "bulk_text", "bulk_images", "returned"} => file = Absent
    /\ file # Absent => (ProcessingDone /\ pc \in {"writing", "done"})
    /\ (raised # "none" /\ op = "none") => file = Absent

\* C7's case: a bulk run interrupted with results gathered and units left
C7_Witness ==
    /\ pc = "done" /\ raised = "KeyboardInterrupt" /\ op = "none"
    /\ args.export # E_none
    /\ results # <<>> /\ idx < Len(units)
    /\ file = Absent

\* C7's other case: a run that processed every unit and wrote its export
C7_WitnessExported ==
    /\ pc = "done" /\ raised = "none" /\ op = "process_bulk_text"
    /\ Len(processed) = 2
    /\ file.format = "csv"

====
